---- MODULE Spec2Model ----
(***************************************************************************)
(* Model of Project-Posieden.py: a Streamlit script that cleans vessel     *)
(* tables, posts one matching query per entity to the OpenSanctions        *)
(* endpoint and interprets the first result of the reply.                  *)
(*                                                                         *)
(* A Python str is a sequence of one-character tokens.  A token is an      *)
(* ASCII character written as itself, or the name of a non-ASCII character *)
(* ("DIAERESIS" U+00A8, "CJK" U+65E5, "SUP2" U+00B2).                       *)
(***************************************************************************)
EXTENDS Integers, Sequences, FiniteSets, TLC

\* ------------------------------------------------------------------ bounds
\* Longest table (rows) handed to clean_vessel_data.
MaxRows == 2
\* Longest all-digit IMO text offered as input (one more than the pad width).
MaxDigits == 8

\* ------------------------------------------------------- program constants
\* x.zfill(7)
ImoWidth == 7
\* best_match.get("score", 0) > 0.7, with scores counted in hundredths
Threshold == 70

\* ----------------------------------------------------------------- strings
AsciiDigits == {"0", "1", "2", "3", "4", "5", "6", "7", "8", "9"}

\* float('nan') / None in a cell: what pandas dropna() removes.
NaN == <<"<NaN>">>

\* str.strip(): removes leading and trailing whitespace.
IsSpace(c) == c = " "

RECURSIVE lstrip(_)
lstrip(s) ==
    IF s # <<>> /\ IsSpace(Head(s)) THEN lstrip(Tail(s)) ELSE s

RECURSIVE rstrip(_)
rstrip(s) ==
    IF s # <<>> /\ IsSpace(s[Len(s)]) THEN rstrip(SubSeq(s, 1, Len(s) - 1)) ELSE s

strip(s) == rstrip(lstrip(s))

\* unicodedata.normalize('NFKD', c).encode('ascii', 'ignore') of one character:
\* U+00A8 decomposes to SPACE + U+0308 and keeps the space, U+00B2 decomposes
\* to "2", U+65E5 has no ASCII part, an ASCII character is itself.
NfkdAsciiChar(c) ==
    CASE c = "DIAERESIS" -> <<" ">>
      [] c = "SUP2" -> <<"2">>
      [] c = "CJK" -> <<>>
      [] OTHER -> <<c>>

RECURSIVE NfkdAscii(_)
NfkdAscii(s) ==
    IF s = <<>> THEN <<>> ELSE NfkdAsciiChar(Head(s)) \o NfkdAscii(Tail(s))

\* Lines 109-111: .str.strip() first, then the NFKD / ASCII fold.
CleanCell(s) == NfkdAscii(strip(s))

\* str.isnumeric(): non-empty and every character has a numeric value
\* (the ASCII digits, and also characters such as U+00B2).
isnumeric(s) ==
    /\ s # <<>>
    /\ \A k \in 1..Len(s) : s[k] \in AsciiDigits \cup {"SUP2"}

RECURSIVE Zeros(_)
Zeros(n) == IF n <= 0 THEN <<>> ELSE <<"0">> \o Zeros(n - 1)

\* str.zfill(width): pads on the left, after a leading sign; never truncates.
zfill(s, width) ==
    IF Len(s) >= width THEN s
    ELSE IF s # <<>> /\ Head(s) \in {"+", "-"}
         THEN <<Head(s)>> \o Zeros(width - Len(s)) \o Tail(s)
         ELSE Zeros(width - Len(s)) \o s

\* A string of decimal digits.
IsDecimal(s) == s # <<>> /\ \A k \in 1..Len(s) : s[k] \in AsciiDigits

\* -------------------------------------------------------------- data frames
\* A DataFrame is [columns |-> set of labels, rows |-> sequence of rows]; a row
\* is a function from the frame's columns to cells.
EmptyFrame(cols) == [columns |-> cols, rows |-> <<>>]

\* df[mask]: the rows whose mask entry is True, in order.
RECURSIVE SelectRows(_, _)
SelectRows(rows, keep) ==
    IF rows = <<>> THEN <<>>
    ELSE (IF keep[1] THEN <<Head(rows)>> ELSE <<>>)
         \o SelectRows(Tail(rows), Tail(keep))

\* Line 98: rename imo -> imoNumber; lines 101-103: add a missing column as ''.
RenamedRow(r, cols) ==
    [name |-> IF "name" \in cols THEN r.name ELSE <<>>,
     imoNumber |-> IF "imo" \in cols THEN r.imo
                   ELSE IF "imoNumber" \in cols THEN r.imoNumber ELSE <<>>]

Renamed(rows, cols) == [k \in 1..Len(rows) |-> RenamedRow(rows[k], cols)]

\* Line 105: df.dropna(subset=['name', 'imoNumber'])
NotNa(r) == r.name # NaN /\ r.imoNumber # NaN

DropNa(rows) == SelectRows(rows, [k \in 1..Len(rows) |-> NotNa(rows[k])])

\* Lines 107-111 applied to one row.
FoldedRow(r) == [name |-> CleanCell(r.name), imoNumber |-> CleanCell(r.imoNumber)]

Folded(rows) == [k \in 1..Len(rows) |-> FoldedRow(rows[k])]

\* Line 113: df[df['imoNumber'].str.isnumeric()]
HasNumericImo(r) == isnumeric(r.imoNumber)

NumericOnly(rows) == SelectRows(rows, [k \in 1..Len(rows) |-> HasNumericImo(rows[k])])

\* Line 114.
PaddedRow(r) == [r EXCEPT !.imoNumber = zfill(r.imoNumber, ImoWidth)]

Padded(rows) == [k \in 1..Len(rows) |-> PaddedRow(rows[k])]

\* Lines 116-117.
NonEmpty(r) == r.name # <<>> /\ r.imoNumber # <<>>

NonEmptyOnly(rows) == SelectRows(rows, [k \in 1..Len(rows) |-> NonEmpty(rows[k])])

\* Line 118: df.drop_duplicates() compares whole rows and keeps the first of
\* the rows that are equal.
DropDuplicateRows(rows) ==
    SelectRows(rows, [k \in 1..Len(rows) |-> ~\E j \in 1..(k - 1) : rows[j] = rows[k]])

\* def clean_vessel_data(df): the returned frame, or the exception raised.
\* A frame that has both an imo and an imoNumber column holds two imoNumber
\* columns after the rename (line 98); df['imoNumber'] is then a DataFrame,
\* which has no .str, and line 109 raises AttributeError.
clean_vessel_data(df) ==
    IF df.rows = <<>> \/ df.columns = {}
    THEN [raised |-> "", df |-> EmptyFrame({"name", "imo"})]
    ELSE IF {"imo", "imoNumber"} \subseteq df.columns
    THEN [raised |-> "AttributeError", df |-> EmptyFrame({})]
    ELSE [raised |-> "",
          df |-> [columns |-> {"name", "imoNumber"},
                  rows |-> DropDuplicateRows(NonEmptyOnly(Padded(NumericOnly(
                               Folded(DropNa(Renamed(df.rows, df.columns)))))))]]

\* ------------------------------------------------------------ dictionaries
\* dict.get(key, default)
Get(d, k, default) == IF k \in DOMAIN d THEN d[k] ELSE default

\* {}
EmptyDict == <<>>

\* None
None == [type |-> "NoneType"]

\* A Python value handed to check_sanctions_single: a dict or something else.
Dict(d) == [type |-> "dict", value |-> d]

\* --------------------------------------------------- check_sanctions_single
\* The request with the entity sent under a second key as well.
BuildRequestTwoQueries(api_key, entity) ==
    [url |-> "https://api.opensanctions.org/match/default",
     Authorization |-> <<"ApiKey", api_key>>,
     json |-> [queries |->
                 [entity_0 |->
                    [schema |-> Get(entity.value, "schema", "Thing"),
                     properties |-> Get(entity.value, "properties", EmptyDict)],
                  entity_1 |->
                    [schema |-> Get(entity.value, "schema", "Thing"),
                     properties |-> Get(entity.value, "properties", EmptyDict)]]]]

\* Lines 48-53 and 59-66: the request check_sanctions_single posts.
BuildRequest(api_key, entity) ==
    [url |-> "https://api.opensanctions.org/match/default",
     Authorization |-> <<"ApiKey", api_key>>,
     json |-> [queries |->
                 [entity_0 |->
                    [schema |-> Get(entity.value, "schema", "Thing"),
                     properties |-> Get(entity.value, "properties", EmptyDict)]]]]

\* Line 55: isinstance(entity, dict)
IsDict(entity) == entity.type = "dict"

\* The ways requests.post / raise_for_status end (lines 69-70): a 2xx reply
\* with a JSON body, a 4xx/5xx reply, or no reply (connection error, timeout).
OkReply(body) == [kind |-> "ok", status |-> 200, body |-> body]

HttpErrorReply(status) == [kind |-> "http_error", status |-> status, body |-> EmptyDict]

NetworkFailure == [kind |-> "network", status |-> 0, body |-> EmptyDict]

\* Lines 72-83 with the except clause for HTTPError missing: the error leaves
\* the function.
SingleReturnUncaught(outcome) ==
    IF outcome.kind = "ok"
    THEN [value |-> outcome.body, shown |-> {}, raised |-> ""]
    ELSE IF outcome.kind = "http_error"
    THEN [value |-> None, shown |-> {}, raised |-> "HTTPError"]
    ELSE [value |-> None, shown |-> {"Request Error"}, raised |-> ""]

\* Lines 68-86: what check_sanctions_single returns, shows and raises once the
\* POST has ended.
SingleReturn(outcome) ==
    IF outcome.kind = "ok"
    THEN [value |-> outcome.body, shown |-> {}, raised |-> ""]
    ELSE IF outcome.kind = "http_error"
    THEN [value |-> None,
          shown |-> {"HTTP Error"}
                    \cup (IF outcome.status = 401 THEN {"Invalid OpenSanctions API key"}
                          ELSE IF outcome.status = 400 THEN {"Bad Request"}
                          ELSE {}),
          raised |-> ""]
    ELSE [value |-> None, shown |-> {"Request Error"}, raised |-> ""]

\* ------------------------------------------------------ reading the verdict
\* if response_data: (None and the empty object are falsy)
Truthy(response_data) == response_data # None /\ response_data # EmptyDict

\* response_data["responses"].get("entity_0") and its "results", or <<>> when
\* either is missing or empty (lines 283-284, 359-361, 404-406).
FirstResults(response_data) ==
    LET response_for_entity == Get(response_data.responses, "entity_0", None)
    IN IF response_for_entity = None THEN <<>>
       ELSE Get(response_for_entity, "results", <<>>)

\* The test with >= in place of >.
IsSanctionedMatchAtLeast(best_match) ==
    /\ "match" \in DOMAIN best_match
    /\ best_match.match = TRUE
    /\ Get(best_match, "score", 0) >= Threshold

\* Lines 288, 363, 408:
\* best_match.get("match") is True and best_match.get("score", 0) > 0.7
IsSanctionedMatch(best_match) ==
    /\ "match" \in DOMAIN best_match
    /\ best_match.match = TRUE
    /\ Get(best_match, "score", 0) > Threshold

\* 'detention' in topic
DetentionTopics == {"detention", "reg.detention"}

\* Line 293.
HasDetentionTopic(best_match) ==
    LET props == Get(best_match, "properties", EmptyDict)
    IN /\ "topics" \in DOMAIN props
       /\ \E k \in 1..Len(props.topics) : props.topics[k] \in DetentionTopics

\* f"{score:.2f}" for a score counted in hundredths.
Fmt2(n) == ToString(n \div 100) \o "." \o ToString((n \div 10) % 10) \o ToString(n % 10)

\* ", ".join(list)
RECURSIVE Join(_)
Join(list) ==
    IF list = <<>> THEN ""
    ELSE IF Len(list) = 1 THEN list[1]
    ELSE list[1] \o ", " \o Join(Tail(list))

\* The result row with the detention topic examined in every found row, an
\* "if" where line 293 has "elif".
VesselResultRowBothFlags(vessel, response_data) ==
    LET results == IF Truthy(response_data) THEN FirstResults(response_data) ELSE <<>>
        found == results # <<>>
        best_match == IF found THEN results[1] ELSE EmptyDict
        is_sanctioned == found /\ IsSanctionedMatch(best_match)
        is_detained == found /\ HasDetentionTopic(best_match)
    IN [Name |-> vessel.name,
        IMO_Number |-> vessel.imoNumber,
        Sanctioned |-> is_sanctioned,
        Detention |-> is_detained,
        Sanction_Lists |-> IF is_detained THEN "Detention"
                           ELSE IF is_sanctioned
                           THEN Join(Get(best_match, "datasets", <<"Unknown">>))
                           ELSE "None",
        Match_Score |-> IF found THEN Fmt2(Get(best_match, "score", 0)) ELSE "N/A",
        OpenSanctions_ID |-> IF is_sanctioned \/ is_detained
                             THEN Get(best_match, "id", "N/A") ELSE "N/A"]

\* Lines 276-309: the row appended to results_df_data for one vessel.
VesselResultRow(vessel, response_data) ==
    LET results == IF Truthy(response_data) THEN FirstResults(response_data) ELSE <<>>
        found == results # <<>>
        best_match == IF found THEN results[1] ELSE EmptyDict
        is_sanctioned == found /\ IsSanctionedMatch(best_match)
        is_detained == found /\ ~is_sanctioned /\ HasDetentionTopic(best_match)
    IN [Name |-> vessel.name,
        IMO_Number |-> vessel.imoNumber,
        Sanctioned |-> is_sanctioned,
        Detention |-> is_detained,
        Sanction_Lists |-> IF is_sanctioned
                           THEN Join(Get(best_match, "datasets", <<"Unknown">>))
                           ELSE IF is_detained THEN "Detention"
                           ELSE "None",
        Match_Score |-> IF found THEN Fmt2(Get(best_match, "score", 0)) ELSE "N/A",
        OpenSanctions_ID |-> IF is_sanctioned \/ is_detained
                             THEN Get(best_match, "id", "N/A") ELSE "N/A"]

\* Lines 358-386 and 403-430: what the person / company check shows.
SingleVerdict(response_data) ==
    IF ~Truthy(response_data) THEN {}
    ELSE LET results == FirstResults(response_data)
         IN IF results # <<>> /\ IsSanctionedMatch(results[1])
            THEN {"Match Found!"}
            ELSE {"No match found on sanctions lists."}

\* ------------------------------------------------- clean_vessel_data inputs
RECURSIVE Ones(_)
Ones(n) == IF n <= 0 THEN <<>> ELSE <<"1">> \o Ones(n - 1)

\* Names offered in a cell: missing, empty, whitespace, padded ASCII, a name
\* that folds to a trailing or a leading space, a name with no ASCII part.
NameInputs ==
    {NaN, <<>>, <<" ">>, <<"A">>, <<"B">>, <<" ", "A", " ">>,
     <<"A", "DIAERESIS">>, <<"CJK">>, <<"CJK", " ", "A">>, <<"DIAERESIS">>}

\* IMO texts offered in a cell: all-digit texts shorter than, equal to and
\* longer than the pad width, padded, non-numeric, and non-ASCII numeric.
ImoInputs ==
    {Ones(n) : n \in {0, 1, ImoWidth, MaxDigits}}
    \cup {NaN, <<" ", "1">>, <<"1", "A">>, <<"SUP2">>, <<"1", "DIAERESIS">>,
          <<"2">>}

ColumnSets ==
    {{"name", "imo"}, {"name", "imoNumber"}, {"name"}, {"imo"},
     {"name", "imo", "imoNumber"}}

\* The rows a frame with the given columns can hold.
RowsOver(cols) ==
    IF cols = {"name", "imo"}
    THEN {[name |-> n, imo |-> i] : n \in NameInputs, i \in ImoInputs}
    ELSE IF cols = {"name", "imoNumber"}
    THEN {[name |-> n, imoNumber |-> i] : n \in NameInputs, i \in ImoInputs}
    ELSE IF cols = {"name"} THEN {[name |-> n] : n \in NameInputs}
    ELSE IF cols = {"imo"} THEN {[imo |-> i] : i \in ImoInputs}
    ELSE {[name |-> n, imo |-> i, imoNumber |-> i] : n \in {<<"A">>}, i \in ImoInputs}

SeqsUpTo(S, n) == UNION {[1..k -> S] : k \in 0..n}

InputFrames ==
    UNION {{[columns |-> cols, rows |-> rs] : rs \in SeqsUpTo(RowsOver(cols), MaxRows)}
           : cols \in ColumnSets}

\* ----------------------------------------------------------- app inputs
ApiKeys == {"", "secret"}

DataSources == {"Manage Stored Vessels", "Upload a CSV file", "Paste data manually"}

EntityTypes == {"Person", "Company"}

\* What the user can type into the name box of the second tab.
NameTexts == {"", "Ivan"}

\* Row k of an uploaded CSV file: vessel "Vk" with an IMO of k digits.
UploadRow(k) == [name |-> <<"V", ToString(k)>>, imo |-> Ones(k)]

NoFile == [present |-> FALSE, columns |-> {}, rows |-> <<>>]

\* The CSV files the user uploads: the first n vessels for every n up to
\* MaxRows (n = 0 is a file of a header line only); a file with a padded name,
\* a row whose IMO is not numeric, a repeated row and the vessels in another
\* order; and a file that has both an imo and an imoNumber column.
UploadFiles ==
    {[present |-> TRUE, columns |-> {"name", "imo"},
      rows |-> [k \in 1..n |-> UploadRow(k)]] : n \in 0..MaxRows}
    \cup {[present |-> TRUE, columns |-> {"name", "imo"},
           rows |-> <<[name |-> <<"V", "1">>, imo |-> <<"1", "A">>],
                      [name |-> <<" ", "V", "2">>, imo |-> <<"1", "1">>],
                      UploadRow(1),
                      UploadRow(2)>>],
          [present |-> TRUE, columns |-> {"name", "imo", "imoNumber"},
           rows |-> <<[name |-> <<"V", "1">>, imo |-> <<"1">>, imoNumber |-> <<"1">>]>>]}

\* Lines 234-237: the text the paste box starts with.
default_data ==
    [blank |-> FALSE, columns |-> {"name", "imo"},
     rows |-> <<[name |-> <<"A", "R", "G", "O", " ", "M", "A", "R", "I", "S">>,
                 imo |-> <<"9", "0", "4", "1", "6", "4", "3">>],
                [name |-> <<"F", "A", "K", "H", "R", " ", "1", " ", "(", "S", "H",
                            "A", "R", "K", "5", "2", ")">>,
                 imo |-> <<"9", "5", "8", "8", "6", "3", "9">>]>>]

\* The paste box emptied.
BlankText == [blank |-> TRUE, columns |-> {}, rows |-> <<>>]

\* Texts the user can leave in the paste box: the default, nothing, a vessel
\* whose IMO is written with leading zeros, and a vessel with an empty IMO
\* field next to one with a number.
PasteTexts ==
    {default_data, BlankText,
     [blank |-> FALSE, columns |-> {"name", "imo"},
      rows |-> <<[name |-> <<"A">>, imo |-> <<"0", "0", "1", "2">>]>>],
     [blank |-> FALSE, columns |-> {"name", "imo"},
      rows |-> <<[name |-> <<"A">>, imo |-> <<"1">>], [name |-> <<"B">>, imo |-> <<>>]>>]}

\* What the Add Vessel form can be submitted with.
FormNames == {<<>>, <<"A">>}

FormImos == {<<>>, <<"1">>, <<"1", "A">>, <<"SUP2">>, Ones(MaxDigits)}

\* First results the matching service can return.
FirstResultsOffered ==
    {[match |-> TRUE, score |-> 90, datasets |-> <<"us_ofac_sdn", "eu_fsf">>, id |-> "NK-1"],
     [match |-> TRUE, score |-> 70, datasets |-> <<"us_ofac_sdn">>, id |-> "NK-2"],
     [match |-> TRUE, id |-> "NK-3"],
     [match |-> FALSE, score |-> 90, id |-> "NK-4"],
     [score |-> 90, id |-> "NK-5"],
     [match |-> FALSE, score |-> 50, id |-> "NK-6",
      properties |-> [topics |-> <<"reg.detention">>]],
     [match |-> TRUE, score |-> 90, datasets |-> <<"us_ofac_sdn">>, id |-> "NK-7",
      properties |-> [topics |-> <<"sanction", "detention">>]]}

\* JSON bodies of a 2xx reply: a first result, an empty result list, and a
\* reply whose responses hold a strong match under entity_1 and no entity_0.
Bodies ==
    {[responses |-> [entity_0 |-> [results |-> <<r>>]]] : r \in FirstResultsOffered}
    \cup {[responses |-> [entity_0 |-> [results |-> <<>>]]],
          [responses |-> [entity_1 |-> [results |->
              <<[match |-> TRUE, score |-> 90, datasets |-> <<"us_ofac_sdn">>,
                 id |-> "NK-8"]>>]]]}

Outcomes ==
    {OkReply(b) : b \in Bodies}
    \cup {HttpErrorReply(st) : st \in {400, 401, 500}}
    \cup {NetworkFailure}

\* Arguments check_sanctions_single is called with directly.
EntityInputs ==
    {Dict([schema |-> "Vessel", properties |-> [imoNumber |-> <<Ones(ImoWidth)>>]]),
     Dict([schema |-> "Person", properties |-> [name |-> <<"Ivan">>]]),
     Dict([schema |-> "Company", properties |-> [name |-> <<"Acme">>]]),
     Dict([schema |-> "Person", properties |-> [name |-> <<"Ivan">>], name |-> "Ivan"]),
     Dict([properties |-> [name |-> <<"Ivan">>]]),
     Dict([schema |-> "Vessel"]),
     [type |-> "list", value |-> <<"Vessel">>],
     [type |-> "str", value |-> "Vessel"],
     None}

\* ------------------------------------------------------------ reading CSV
\* pd.read_csv(uploaded_file, header=0, dtype=str): every cell is the text of
\* its field, an empty field is NaN.
ReadCsvStr(file) ==
    [columns |-> file.columns,
     rows |-> [k \in 1..Len(file.rows) |->
                 [c \in DOMAIN file.rows[k] |->
                    IF file.rows[k][c] = <<>> THEN NaN ELSE file.rows[k][c]]]]

RECURSIVE StripLeadingZeros(_)
StripLeadingZeros(s) ==
    IF Len(s) > 1 /\ Head(s) = "0" THEN StripLeadingZeros(Tail(s)) ELSE s

\* pd.read_csv(io.StringIO(pasted_data), sep=None, engine='python'): column
\* types are inferred.  A column of integers is int64 (str() drops leading
\* zeros), a column of integers and empty fields is float64 (str() ends in
\* ".0", the empty fields are NaN), any other column keeps its texts.
ReadCsvInfer(text) ==
    LET Column(c) == {text.rows[k][c] : k \in 1..Len(text.rows)}
        IsInt(c) == \A v \in Column(c) : IsDecimal(v)
        IsFloat(c) == /\ \A v \in Column(c) : IsDecimal(v) \/ v = <<>>
                      /\ \E v \in Column(c) : IsDecimal(v)
        Cell(c, v) ==
            IF v = <<>> THEN NaN
            ELSE IF IsInt(c) THEN StripLeadingZeros(v)
            ELSE IF IsFloat(c) THEN StripLeadingZeros(v) \o <<".", "0">>
            ELSE v
    IN [columns |-> text.columns,
        rows |-> [k \in 1..Len(text.rows) |->
                    [c \in DOMAIN text.rows[k] |-> Cell(c, text.rows[k][c])]]]

VARIABLES
    os_api_key,        \* sidebar text input (line 167)
    data_source,       \* radio (line 181)
    uploaded_file,     \* file uploader (line 224)
    pasted_data,       \* text area (line 238)
    entity_type,       \* radio (line 341)
    name_input,        \* the name box of the chosen entity type (lines 344, 391)
    vessels_df,        \* st.session_state.vessels_df
    vessels_to_check,  \* st.session_state.vessels_to_check
    vessels_data_csv,  \* the file vessels_data.csv
    pc,                \* where the script run stands
    raised,            \* the exception that ended the last script run, or ""
    shown,             \* messages shown by the current script run
    requests,          \* POSTs issued by the current script run, in order
    replies,           \* how each of them ended, in order
    inflight,          \* positions in requests of the POSTs not yet ended
    i,                 \* rows of the pass already appended
    working,           \* vessels_to_check_df of the pass (line 248-254)
    results_df_data,   \* line 259
    entity,            \* argument of the current check_sanctions_single call
    ret,               \* what the last check_sanctions_single call returned
    df_in,             \* a frame handed to clean_vessel_data directly
    df_out,            \* what that call returned or raised
    df_again,          \* what clean_vessel_data returned for df_out.df
    cleanPc            \* "off", "input", "cleaned", "recleaned"

widgetVars == <<os_api_key, data_source, uploaded_file, pasted_data, entity_type, name_input>>

storeVars == <<vessels_df, vessels_to_check, vessels_data_csv>>

runVars == <<pc, raised, shown, requests, replies, inflight, i, working,
             results_df_data, entity, ret>>

cleanVars == <<df_in, df_out, df_again, cleanPc>>

vars == <<widgetVars, storeVars, runVars, cleanVars>>

NoResult == [raised |-> "", df |-> EmptyFrame({})]

\* 'vessels_df' not in st.session_state / 'vessels_to_check' not in it.
Absent == [present |-> FALSE, df |-> EmptyFrame({})]

NoCsv == [exists |-> FALSE, rows |-> <<>>]

\* A fresh session before its first script run.
FreshWidgets ==
    /\ os_api_key = ""
    /\ data_source = "Manage Stored Vessels"
    /\ uploaded_file = NoFile
    /\ pasted_data = default_data
    /\ entity_type = "Person"
    /\ name_input = ""

FreshRun ==
    /\ shown = {}
    /\ requests = <<>>
    /\ replies = <<>>
    /\ inflight = {}
    /\ i = 0
    /\ working = <<>>
    /\ results_df_data = <<>>
    /\ entity = None
    /\ ret = None

CleanOff ==
    /\ df_in = EmptyFrame({})
    /\ df_out = NoResult
    /\ df_again = NoResult
    /\ cleanPc = "off"

\* ---------------------------------------------------------------- the script
\* if os_api_key: (lines 247, 347, 394) with the test left out.
KeyEnteredAlways(api_key) == TRUE

\* if os_api_key: (lines 247, 347, 394)
KeyEntered(api_key) == api_key # ""

\* Lines 187-244 of a run in which the Add Vessel form was not submitted: the
\* exception that ends the run, and st.session_state.vessels_to_check after it.
\* Line 215 reads st.session_state.vessels_df, which raises AttributeError
\* while the key is not in the session state; no line of the script sets the
\* key without reading it first, so the data editor of lines 216-220 is never
\* rendered and the table cannot be edited.
PrepareWorkingSet(ds, upl, pst, vdf, vtc) ==
    IF ds = "Manage Stored Vessels"
    THEN [raised |-> IF vdf.present THEN "" ELSE "AttributeError", vtc |-> vtc]
    ELSE IF ds = "Upload a CSV file"
    THEN IF upl.present
         THEN LET r == clean_vessel_data(ReadCsvStr(upl))
              IN [raised |-> r.raised,
                  vtc |-> IF r.raised = "" THEN [present |-> TRUE, df |-> r.df] ELSE vtc]
         ELSE [raised |-> "", vtc |-> vtc]
    ELSE IF ~pst.blank
         THEN LET r == clean_vessel_data(ReadCsvInfer(pst))
              IN [raised |-> r.raised,
                  vtc |-> IF r.raised = "" THEN [present |-> TRUE, df |-> r.df] ELSE vtc]
         ELSE [raised |-> "", vtc |-> vtc]

\* Line 208: drop_duplicates(subset='imoNumber', keep='last')
DropDuplicateImosKeepLast(rows) ==
    SelectRows(rows, [k \in 1..Len(rows) |->
                        ~\E j \in (k + 1)..Len(rows) : rows[j].imoNumber = rows[k].imoNumber])

\* Lines 200-220: the Add Vessel form submitted with new_name, new_imo_number.
\* Both line 208 and line 215 read st.session_state.vessels_df.
AddVessel(vdf, new_name, new_imo_number) ==
    LET formatted_imo == zfill(strip(new_imo_number), ImoWidth)
        filled == new_name # <<>> /\ new_imo_number # <<>>
        accepted == filled /\ isnumeric(formatted_imo)
        added == [present |-> TRUE,
                  df |-> [columns |-> {"name", "imoNumber"},
                          rows |-> DropDuplicateImosKeepLast(
                                      Append(vdf.df.rows,
                                             [name |-> new_name,
                                              imoNumber |-> formatted_imo]))]]
    IN IF accepted /\ vdf.present
       THEN [raised |-> "", shown |-> {"Added vessel"}, vessels_df |-> added, saved |-> TRUE]
       ELSE [raised |-> IF vdf.present THEN "" ELSE "AttributeError",
             shown |-> IF ~filled THEN {"Please provide both a name and an IMO number."}
                       ELSE IF ~accepted THEN {"IMO number must be numeric."}
                       ELSE {},
             vessels_df |-> vdf, saved |-> FALSE]

\* results_df_data.append with failed requests leaving no row.
AppendResultIfReply(results, vessel, response_data) ==
    IF Truthy(response_data)
    THEN Append(results, VesselResultRow(vessel, response_data))
    ELSE results

\* Lines 301-309: results_df_data.append({...})
AppendResult(results, vessel, response_data) ==
    Append(results, VesselResultRow(vessel, response_data))

\* Lines 267-272: the query of one vessel.
VesselQuery(vessel) ==
    Dict([schema |-> "Vessel", properties |-> [imoNumber |-> <<vessel.imoNumber>>]])

\* Lines 349-354 and 396-399: the query of a person or a company.
NameQuery(schema, name) ==
    Dict([schema |-> schema, properties |-> [name |-> <<name>>]])

\* Lines 248-254: the frame the pass runs over.
SelectWorkingSet(ds, vdf, vtc) ==
    IF ds = "Manage Stored Vessels" THEN vdf.df.rows
    ELSE IF vtc.present THEN vtc.df.rows
    ELSE <<>>

\* A script run starts with no request sent and no pass under way.
ClearCalls ==
    /\ requests' = <<>>
    /\ replies' = <<>>
    /\ inflight' = {}
    /\ entity' = None
    /\ ret' = None

ClearRun ==
    /\ ClearCalls
    /\ i' = 0
    /\ working' = <<>>
    /\ results_df_data' = <<>>

\* The widgets of the second tab are rendered only by a run that reaches it.
Tab2Widgets(rz, et, nm) ==
    /\ entity_type' = IF rz = "" THEN et ELSE "Person"
    /\ name_input' = IF rz = "" THEN nm ELSE ""

\* A script run from the top in which no button is pressed.
RerunWith(p, ds, upl, pst, et, nm) ==
    /\ data_source' = ds
    /\ uploaded_file' = upl
    /\ pasted_data' = pst
    /\ vessels_to_check' = p.vtc
    /\ pc' = "idle"
    /\ raised' = p.raised
    /\ shown' = {}
    /\ Tab2Widgets(p.raised, et, nm)
    /\ ClearRun
    /\ UNCHANGED <<vessels_df, vessels_data_csv, cleanVars>>

Rerun(ds, upl, pst, et, nm) ==
    RerunWith(PrepareWorkingSet(ds, upl, pst, vessels_df, vessels_to_check),
              ds, upl, pst, et, nm)

\* The state after the first script run of a fresh session.
Init ==
    /\ FreshWidgets
    /\ vessels_df = Absent
    /\ vessels_to_check = Absent
    /\ vessels_data_csv = NoCsv
    /\ pc = "idle"
    /\ raised = PrepareWorkingSet(data_source, uploaded_file, pasted_data,
                                  vessels_df, vessels_to_check).raised
    /\ FreshRun
    /\ CleanOff

\* The user types or clears the OpenSanctions API key (line 167).
EnterApiKey(k) ==
    /\ pc = "idle"
    /\ k # os_api_key
    /\ os_api_key' = k
    /\ Rerun(data_source, uploaded_file, pasted_data, entity_type, name_input)

\* The user picks a data source (line 181); widgets that are not rendered
\* lose their value.
SelectDataSource(ds) ==
    /\ pc = "idle"
    /\ ds # data_source
    /\ Rerun(ds, NoFile, default_data, entity_type, name_input)
    /\ UNCHANGED os_api_key

\* The user uploads or removes a file (line 224).
ChooseFile(f) ==
    /\ pc = "idle"
    /\ data_source = "Upload a CSV file"
    /\ f # uploaded_file
    /\ Rerun(data_source, f, pasted_data, entity_type, name_input)
    /\ UNCHANGED os_api_key

\* The user edits the paste box (line 238).
EditPaste(t) ==
    /\ pc = "idle"
    /\ data_source = "Paste data manually"
    /\ t # pasted_data
    /\ Rerun(data_source, uploaded_file, t, entity_type, name_input)
    /\ UNCHANGED os_api_key

\* The user picks Person or Company (line 341).
SelectEntityType(et) ==
    /\ pc = "idle"
    /\ raised = ""
    /\ et # entity_type
    /\ Rerun(data_source, uploaded_file, pasted_data, et, "")
    /\ UNCHANGED os_api_key

\* The user types a name into the name box (lines 344, 391).
TypeName(nm) ==
    /\ pc = "idle"
    /\ raised = ""
    /\ nm # name_input
    /\ Rerun(data_source, uploaded_file, pasted_data, entity_type, nm)
    /\ UNCHANGED os_api_key

\* The user submits the Add Vessel form (lines 190-220).
SubmitAddVessel(new_name, new_imo_number) ==
    /\ pc = "idle"
    /\ data_source = "Manage Stored Vessels"
    /\ LET a == AddVessel(vessels_df, new_name, new_imo_number)
       IN /\ vessels_df' = a.vessels_df
          /\ vessels_data_csv' = IF a.saved
                                 THEN [exists |-> TRUE, rows |-> a.vessels_df.df.rows]
                                 ELSE vessels_data_csv
          /\ raised' = a.raised
          /\ shown' = a.shown
          /\ Tab2Widgets(a.raised, entity_type, name_input)
    /\ pc' = "idle"
    /\ ClearRun
    /\ UNCHANGED <<os_api_key, data_source, uploaded_file, pasted_data,
                   vessels_to_check, cleanVars>>

\* The browser session is reloaded: widgets and session state start over, the
\* files on disk stay.
NewSession ==
    /\ pc = "idle"
    /\ os_api_key' = ""
    /\ data_source' = "Manage Stored Vessels"
    /\ uploaded_file' = NoFile
    /\ pasted_data' = default_data
    /\ entity_type' = "Person"
    /\ name_input' = ""
    /\ vessels_df' = Absent
    /\ vessels_to_check' = Absent
    /\ pc' = "idle"
    /\ raised' = PrepareWorkingSet("Manage Stored Vessels", NoFile, default_data,
                                   Absent, Absent).raised
    /\ shown' = {}
    /\ ClearRun
    /\ UNCHANGED <<vessels_data_csv, cleanVars>>

\* check_sanctions_single up to the POST (lines 44-69): a non-dict returns
\* None at once, a dict is posted and the call waits for the reply.
CallSingle(e, waitPc, donePc) ==
    /\ entity' = e
    /\ IF IsDict(e)
       THEN /\ requests' = Append(requests, BuildRequest(os_api_key, e))
            /\ inflight' = inflight \cup {Len(requests) + 1}
            /\ pc' = waitPc
            /\ ret' = ret
       ELSE /\ pc' = donePc
            /\ ret' = None
            /\ UNCHANGED <<requests, inflight>>

\* The Check Vessels button (lines 246-262, 330-333).
PressCheckVessels ==
    /\ pc = "idle"
    /\ raised = ""
    /\ LET p == PrepareWorkingSet(data_source, uploaded_file, pasted_data,
                                  vessels_df, vessels_to_check)
           vessels_to_check_df == SelectWorkingSet(data_source, vessels_df, p.vtc)
       IN /\ vessels_to_check' = p.vtc
          /\ raised' = p.raised
          /\ ClearCalls
          /\ i' = 0
          /\ results_df_data' = <<>>
          /\ IF p.raised # "" THEN pc' = "idle" /\ shown' = {}
             ELSE IF ~KeyEntered(os_api_key)
             THEN pc' = "idle" /\ shown' = {"Please enter a valid OpenSanctions API key."}
             ELSE IF vessels_to_check_df = <<>>
             THEN pc' = "idle" /\ shown' = {"No vessels to check. Please provide data."}
             ELSE pc' = "vessel_loop" /\ shown' = {}
          /\ working' = IF p.raised = "" /\ KeyEntered(os_api_key)
                        THEN vessels_to_check_df ELSE <<>>
    /\ UNCHANGED <<widgetVars, vessels_df, vessels_data_csv, cleanVars>>

\* One turn of the loop up to the POST (lines 264-274 and 44-69).  The script
\* blocks on the request: no widget is served while a run is under way.
VesselSend ==
    /\ pc = "vessel_loop"
    /\ CallSingle(VesselQuery(working[i + 1]), "vessel_wait", "vessel_wait")
    /\ UNCHANGED <<widgetVars, storeVars, raised, shown, replies, i, working,
                   results_df_data, cleanVars>>

\* The POST of the current row ends; check_sanctions_single returns and the
\* loop appends the row (lines 69-86, 276-311); after the last row the run
\* shows the table and goes on to the other tabs (lines 313-329).
VesselReceive(outcome) ==
    /\ pc = "vessel_wait"
    /\ LET r == SingleReturn(outcome)
           last == i + 1 = Len(working)
       IN /\ replies' = Append(replies, outcome)
          /\ inflight' = inflight \ {Len(requests)}
          /\ ret' = r.value
          /\ raised' = r.raised
          /\ Tab2Widgets(r.raised, entity_type, name_input)
          /\ IF r.raised # ""
             THEN /\ pc' = "idle"
                  /\ shown' = shown \cup r.shown
                  /\ UNCHANGED <<i, results_df_data>>
             ELSE /\ results_df_data' = AppendResult(results_df_data, working[i + 1], r.value)
                  /\ i' = i + 1
                  /\ pc' = IF last THEN "idle" ELSE "vessel_loop"
                  /\ shown' = shown \cup r.shown
                              \cup (IF last THEN {"Check complete!"} ELSE {})
    /\ UNCHANGED <<os_api_key, data_source, uploaded_file, pasted_data, storeVars,
                   requests, working, entity, cleanVars>>

\* Lines 388 and 432.
NameWarning(schema) ==
    IF schema = "Person" THEN "Please provide a name to search."
    ELSE "Please provide a company name to search."

\* The Check Person / Check Company button (lines 346-356, 387-388 and
\* 393-401, 431-432).
PressCheckSingle(schema) ==
    /\ pc = "idle"
    /\ raised = ""
    /\ entity_type = schema
    /\ LET p == PrepareWorkingSet(data_source, uploaded_file, pasted_data,
                                  vessels_df, vessels_to_check)
       IN /\ vessels_to_check' = p.vtc
          /\ raised' = p.raised
          /\ replies' = <<>>
          /\ i' = 0
          /\ working' = <<>>
          /\ results_df_data' = <<>>
          /\ Tab2Widgets(p.raised, entity_type, name_input)
          /\ IF p.raised = "" /\ KeyEntered(os_api_key) /\ name_input # ""
             THEN /\ entity' = NameQuery(schema, name_input)
                  /\ requests' = <<BuildRequest(os_api_key, NameQuery(schema, name_input))>>
                  /\ inflight' = {1}
                  /\ ret' = None
                  /\ pc' = "single_wait"
                  /\ shown' = {}
             ELSE /\ entity' = None
                  /\ requests' = <<>>
                  /\ inflight' = {}
                  /\ ret' = None
                  /\ pc' = "idle"
                  /\ shown' = IF p.raised = "" /\ name_input = ""
                              THEN {NameWarning(schema)} ELSE {}
    /\ UNCHANGED <<os_api_key, data_source, uploaded_file, pasted_data,
                   vessels_df, vessels_data_csv, cleanVars>>

PressCheckPerson == PressCheckSingle("Person")

PressCheckCompany == PressCheckSingle("Company")

\* The POST of the person / company check ends and the verdict is shown
\* (lines 69-86, 358-386, 403-430).
SingleReceive(outcome) ==
    /\ pc = "single_wait"
    /\ LET r == SingleReturn(outcome)
       IN /\ replies' = Append(replies, outcome)
          /\ inflight' = inflight \ {Len(requests)}
          /\ ret' = r.value
          /\ raised' = r.raised
          /\ Tab2Widgets(r.raised, entity_type, name_input)
          /\ shown' = r.shown \cup (IF r.raised = "" THEN SingleVerdict(r.value) ELSE {})
    /\ pc' = "idle"
    /\ UNCHANGED <<os_api_key, data_source, uploaded_file, pasted_data, storeVars,
                   requests, i, working, results_df_data, entity, cleanVars>>

Next ==
    \/ \E k \in ApiKeys : EnterApiKey(k)
    \/ \E ds \in DataSources : SelectDataSource(ds)
    \/ \E f \in UploadFiles \cup {NoFile} : ChooseFile(f)
    \/ \E t \in PasteTexts : EditPaste(t)
    \/ \E et \in EntityTypes : SelectEntityType(et)
    \/ \E nm \in NameTexts : TypeName(nm)
    \/ \E n \in FormNames, im \in FormImos : SubmitAddVessel(n, im)
    \/ NewSession
    \/ PressCheckVessels
    \/ VesselSend
    \/ \E o \in Outcomes : VesselReceive(o)
    \/ PressCheckPerson
    \/ PressCheckCompany
    \/ \E o \in Outcomes : SingleReceive(o)

Spec == Init /\ [][Next]_vars

\* The script is synchronous: once a pass is under way it sends the next
\* request, and every POST ends (a reply, an error, or the 60 s timeout).
FairSpec ==
    /\ Spec
    /\ WF_vars(VesselSend)
    /\ WF_vars(\E o \in Outcomes : VesselReceive(o))
    /\ WF_vars(\E o \in Outcomes : SingleReceive(o))

\* -------------------------------------- check_sanctions_single called alone
InitSingle ==
    /\ os_api_key \in ApiKeys
    /\ data_source = "Manage Stored Vessels"
    /\ uploaded_file = NoFile
    /\ pasted_data = default_data
    /\ entity_type = "Person"
    /\ name_input = ""
    /\ vessels_df = Absent
    /\ vessels_to_check = Absent
    /\ vessels_data_csv = NoCsv
    /\ pc = "direct_call"
    /\ raised = ""
    /\ shown = {}
    /\ requests = <<>>
    /\ replies = <<>>
    /\ inflight = {}
    /\ i = 0
    /\ working = <<>>
    /\ results_df_data = <<>>
    /\ entity \in EntityInputs
    /\ ret = None
    /\ CleanOff

\* check_sanctions_single(os_api_key, entity) up to the POST.
DirectCall ==
    /\ pc = "direct_call"
    /\ CallSingle(entity, "direct_wait", "direct_done")
    /\ UNCHANGED <<widgetVars, storeVars, raised, shown, replies, i, working,
                   results_df_data, cleanVars>>

\* The POST ends and check_sanctions_single returns.
DirectReturn(outcome) ==
    /\ pc = "direct_wait"
    /\ LET r == SingleReturn(outcome)
       IN /\ ret' = r.value
          /\ shown' = r.shown
          /\ raised' = r.raised
    /\ replies' = Append(replies, outcome)
    /\ inflight' = inflight \ {Len(requests)}
    /\ pc' = "direct_done"
    /\ UNCHANGED <<widgetVars, storeVars, requests, i, working, results_df_data,
                   entity, cleanVars>>

NextSingle == DirectCall \/ \E o \in Outcomes : DirectReturn(o)

SpecSingle == InitSingle /\ [][NextSingle]_vars

\* --------------------------------------------- clean_vessel_data called alone
InitClean ==
    /\ FreshWidgets
    /\ vessels_df = Absent
    /\ vessels_to_check = Absent
    /\ vessels_data_csv = NoCsv
    /\ pc = "idle"
    /\ raised = ""
    /\ FreshRun
    /\ df_in \in InputFrames
    /\ df_out = NoResult
    /\ df_again = NoResult
    /\ cleanPc = "input"

\* clean_vessel_data(df_in)
CleanCall ==
    /\ cleanPc = "input"
    /\ df_out' = clean_vessel_data(df_in)
    /\ cleanPc' = "cleaned"
    /\ UNCHANGED <<df_in, df_again, widgetVars, storeVars, runVars>>

\* clean_vessel_data applied to the frame it returned.
CleanAgain ==
    /\ cleanPc = "cleaned"
    /\ df_out.raised = ""
    /\ df_again' = clean_vessel_data(df_out.df)
    /\ cleanPc' = "recleaned"
    /\ UNCHANGED <<df_in, df_out, widgetVars, storeVars, runVars>>

NextClean == CleanCall \/ CleanAgain

SpecClean == InitClean /\ [][NextClean]_vars

\* ================================================================== claims
\* C1: in the vessel pass and in the person / company check an entity is
\* flagged (Sanctioned, "Match Found!") only when the request got a reply
\* whose responses.entity_0.results[0] has match = true and a score above 0.7;
\* a failed request, an empty or missing result list, match false or missing,
\* score missing or at most 0.7 never flag.
StrongFirstResult(reply) ==
    /\ reply.kind = "ok"
    /\ "entity_0" \in DOMAIN reply.body.responses
    /\ reply.body.responses.entity_0.results # <<>>
    /\ LET first == reply.body.responses.entity_0.results[1]
       IN /\ "match" \in DOMAIN first
          /\ first.match = TRUE
          /\ "score" \in DOMAIN first
          /\ first.score > 70

C1_FlaggedOnlyOnStrongMatch ==
    /\ \A k \in 1..Len(results_df_data) :
          results_df_data[k].Sanctioned => StrongFirstResult(replies[k])
    /\ "Match Found!" \in shown => Len(replies) = 1 /\ StrongFirstResult(replies[1])

\* C1 witness: a finished pass whose first row is flagged and whose second
\* row, answered with match = true at a score of exactly 0.70, is not.
C1_Witness ==
    /\ "Check complete!" \in shown
    /\ Len(results_df_data) = 2
    /\ results_df_data[1].Sanctioned
    /\ ~results_df_data[2].Sanctioned
    /\ replies[2].kind = "ok"
    /\ "entity_0" \in DOMAIN replies[2].body.responses
    /\ replies[2].body.responses.entity_0.results # <<>>
    /\ replies[2].body.responses.entity_0.results[1].id = "NK-2"

\* C2: clean_vessel_data applied to its own output returns the same rows.
C2_Idempotent ==
    cleanPc = "recleaned" => df_again.raised = "" /\ df_again.df.rows = df_out.df.rows

\* C3: every IMO number in the frame clean_vessel_data returns is a string of
\* exactly 7 decimal digits.
C3_ImoSevenDigits ==
    cleanPc # "input" /\ df_out.raised = "" =>
        \A k \in 1..Len(df_out.df.rows) :
            /\ IsDecimal(df_out.df.rows[k].imoNumber)
            /\ Len(df_out.df.rows[k].imoNumber) = 7

\* C4: no two rows of the frame clean_vessel_data returns have the same name.
C4_UniqueByName ==
    cleanPc # "input" /\ df_out.raised = "" =>
        \A j, k \in 1..Len(df_out.df.rows) :
            df_out.df.rows[j].name = df_out.df.rows[k].name => j = k

\* C5: clean_vessel_data raises for no input frame, and no row it returns has
\* an empty name or a non-numeric IMO.
C5_NeverRaises ==
    cleanPc # "input" =>
        /\ df_out.raised = ""
        /\ \A k \in 1..Len(df_out.df.rows) :
            /\ df_out.df.rows[k].name # <<>>
            /\ IsDecimal(df_out.df.rows[k].imoNumber)

\* C6: a call of check_sanctions_single posts at most once and lets no
\* exception out; when the POST ends in an HTTP error status or a network
\* failure the call shows a message and returns None with that one POST sent;
\* when the argument is not a dict it returns None with no POST sent.
C6_OnePostNoRetry ==
    /\ Len(requests) <= 1
    /\ raised = ""
    /\ pc = "direct_done" =>
          IF entity.type = "dict"
          THEN /\ Len(requests) = 1
               /\ Len(replies) = 1
               /\ replies[1].kind # "ok" => ret = None /\ shown # {}
          ELSE requests = <<>> /\ ret = None

\* C6 witness: a call whose POST ended in HTTP 401 has returned None.
C6_Witness ==
    /\ pc = "direct_done"
    /\ Len(requests) = 1
    /\ replies = <<HttpErrorReply(401)>>
    /\ ret = None
    /\ "HTTP Error" \in shown

\* C7: a Check Vessels pass over N rows sends one request per row in row
\* order, never has two requests outstanding, starts a request only when all
\* earlier ones have ended, and ends with N result rows in row order; a row
\* whose request failed is not sanctioned, not detained and scored "N/A".
\* Every pass that starts completes.
PassUnderWay == pc \in {"vessel_loop", "vessel_wait"}

PassComplete == "Check complete!" \in shown

C7_PassInvariant ==
    /\ Cardinality(inflight) <= 1
    /\ PassUnderWay =>
          /\ Len(results_df_data) = i
          /\ Len(replies) = i
          /\ i < Len(working)
          /\ IF pc = "vessel_wait"
             THEN Len(requests) = i + 1 /\ inflight = {i + 1}
             ELSE Len(requests) = i /\ inflight = {}
    /\ working # <<>> =>
          \A k \in 1..Len(requests) :
              requests[k].json.queries.entity_0.properties.imoNumber
                  = <<working[k].imoNumber>>
    /\ PassComplete =>
          /\ working # <<>>
          /\ Len(requests) = Len(working)
          /\ Len(results_df_data) = Len(working)
          /\ \A k \in 1..Len(working) :
                /\ results_df_data[k].Name = working[k].name
                /\ results_df_data[k].IMO_Number = working[k].imoNumber
                /\ replies[k].kind # "ok" =>
                      /\ ~results_df_data[k].Sanctioned
                      /\ ~results_df_data[k].Detention
                      /\ results_df_data[k].Match_Score = "N/A"

C7_SequentialPass == [](C7_PassInvariant) /\ (PassUnderWay ~> PassComplete)

\* C7 witness: a finished pass over two rows whose first request failed and
\* whose second was answered.
C7_Witness ==
    /\ PassComplete
    /\ Len(working) = 2
    /\ replies[1].kind = "network"
    /\ replies[2].kind = "ok"
    /\ Len(results_df_data) = 2

\* C8: an Add Vessel submission with a name and a numeric IMO leaves the
\* vessel in the stored list, and vessels_data.csv holding exactly that list.
C8_StoredListPersists ==
    [][(\E im \in {<<"1">>, Ones(MaxDigits)} : SubmitAddVessel(<<"A">>, im))
        => /\ vessels_df'.present
           /\ vessels_data_csv'.exists
           /\ vessels_data_csv'.rows = vessels_df'.df.rows
           /\ \E k \in 1..Len(vessels_df'.df.rows) : vessels_df'.df.rows[k].name = <<"A">>]_vars

\* C9: every request carries exactly one query, keyed entity_0, with schema
\* Vessel, Person or Company and one property of one value, the field the
\* schema selects (imoNumber for Vessel, name for Person and Company); a reply
\* that holds no responses.entity_0 flags nothing, whatever else it holds.
FieldOf(schema) == IF schema = "Vessel" THEN "imoNumber" ELSE "name"

LacksEntity0(reply) ==
    reply.kind = "ok" /\ "entity_0" \notin DOMAIN reply.body.responses

Refusals ==
    {"Please enter a valid OpenSanctions API key.",
     "No vessels to check. Please provide data.",
     "Please provide a name to search.",
     "Please provide a company name to search."}

C10_NoRequestWithoutKey ==
    /\ \A k \in 1..Len(requests) :
          /\ requests[k].Authorization # <<"ApiKey", "">>
          /\ requests[k].json.queries.entity_0.schema \in {"Person", "Company"} =>
                requests[k].json.queries.entity_0.properties.name # <<"">>
    /\ os_api_key = "" => requests = <<>> /\ ~PassUnderWay /\ pc # "single_wait"
    /\ shown \cap Refusals # {} => requests = <<>>

\* C10 witness: Check Vessels pressed with an empty key and a working set of
\* two rows.
C10_Witness ==
    /\ os_api_key = ""
    /\ "Please enter a valid OpenSanctions API key." \in shown
    /\ vessels_to_check.present
    /\ Len(vessels_to_check.df.rows) = 2
    /\ requests = <<>>

\* C11: in every row of the vessel results table Sanctioned and Detention are
\* never both true, a first result that qualifies as a sanctions match is
\* never reported as a detention whatever its topics, and Sanction Lists /
\* OpenSanctions ID differ from 'None' / 'N/A' only in rows where Sanctioned
\* or Detention is true.
DetentionFirstResult(reply) ==
    /\ reply.kind = "ok"
    /\ "entity_0" \in DOMAIN reply.body.responses
    /\ reply.body.responses.entity_0.results # <<>>
    /\ LET first == reply.body.responses.entity_0.results[1]
       IN /\ "properties" \in DOMAIN first
          /\ "topics" \in DOMAIN first.properties
          /\ \E t \in 1..Len(first.properties.topics) :
                first.properties.topics[t] \in DetentionTopics

C11_FlagsExclusive ==
    \A k \in 1..Len(results_df_data) :
        LET row == results_df_data[k]
        IN /\ ~(row.Sanctioned /\ row.Detention)
           /\ StrongFirstResult(replies[k]) => row.Sanctioned /\ ~row.Detention
           /\ row.Detention => DetentionFirstResult(replies[k])
           /\ (row.Sanction_Lists # "None" \/ row.OpenSanctions_ID # "N/A") =>
                 (row.Sanctioned \/ row.Detention)

\* C11 witness: a finished pass whose first row was answered with a strong
\* match that also carries a detention topic, and whose second row was
\* answered with a weak result carrying a detention topic.
C11_Witness ==
    /\ PassComplete
    /\ Len(results_df_data) = 2
    /\ StrongFirstResult(replies[1])
    /\ DetentionFirstResult(replies[1])
    /\ results_df_data[1].Sanctioned
    /\ ~results_df_data[1].Detention
    /\ results_df_data[2].Detention
    /\ results_df_data[2].Sanction_Lists = "Detention"

\* C12: while a vessel pass started under 'Upload a CSV file' or 'Paste data
\* manually' is under way, the rows being checked are exactly the cleaned
\* rows of the file or text supplied under that data source in the run that
\* started the pass; rows prepared earlier under the other data source are
\* never the ones sent for checking.
C12_RowsOfCurrentSource ==
    PassUnderWay =>
        /\ data_source = "Upload a CSV file" =>
              /\ uploaded_file.present
              /\ working = clean_vessel_data(ReadCsvStr(uploaded_file)).df.rows
        /\ data_source = "Paste data manually" =>
              /\ ~pasted_data.blank
              /\ working = clean_vessel_data(ReadCsvInfer(pasted_data)).df.rows

====
